---------------------------- MODULE Spec2Model ----------------------------
(***************************************************************************)
(* Model of the resilient request core of ghostctl:                        *)
(*   ghostctl/utils/retry.py  - RetryManager, CircuitBreaker               *)
(*   ghostctl/utils/auth.py   - JWTAuth, AuthManager.authenticated_request *)
(*   ghostctl/client.py       - GhostClient._make_request,                 *)
(*                              GhostClient._handle_response               *)
(* Times are integers (clock units); None is modelled by the value None.   *)
(***************************************************************************)
EXTENDS Integers, Sequences, FiniteSets, TLC

(* ------------------------------ bounds --------------------------------- *)
NumThreads == 2
MaxThreshold == 2
MaxRecovery == 1
MaxTime == 2
MaxCalls == MaxThreshold + 2
MaxRetriesBound == 2
MaxBaseDelay == 1
MaxFactor == 2
MaxMaxDelay == 2
MaxExecs == 1
MaxJwtCalls == 3
MaxAttempt == 3
MaxDelayCalls == 2
MaxDirectRequests == 1
MaxPairCalls == 3
JitterDen == 2

(* ------------------------- program constants --------------------------- *)
TokenLifetime == 300
DefaultMinRemaining == 60
ClientFailureThreshold == 5
ClientRecoveryTimeout == 60
DefaultRetryAttempts == 3
ClientClockStep == 30
MaxRequests == ClientFailureThreshold + 1
MaxDirect == ClientFailureThreshold + 1

Threads == 1..NumThreads
None == -1

VARIABLES
    now,                 \* time.time(), in seconds
    clock_step,          \* seconds the clock advances at a time
    \* CircuitBreaker fields (retry.py:216-223)
    failure_threshold, recovery_timeout, expected_exception,
    state, failure_count, last_failure_time, lock,
    \* CircuitBreaker.call frames, one per calling thread
    callers, pc, current_state, op_exc, entry, invoked,
    \* record of the completed CircuitBreaker.call invocations
    hist,
    \* RetryManager configuration (retry.py:49-53) and metrics (retry.py:60-66)
    max_retries, base_delay, max_delay, backoff_factor, jitter, metrics,
    \* execute_with_retry frame: position, loop index, locals, result of operation()
    rpc, attempt, last_exception, total_delay, op_result,
    \* what execute_with_retry returned or raised; metrics when it was entered
    rresult, metrics0, nexec,
    \* events of the current execute_with_retry: operation results, sleeps,
    \* HTTP exchanges, token fetches, cache invalidations
    trace,
    \* JWTAuth fields (auth.py:39-41)
    token_cache, token_expires_at, cache_stats,
    \* AuthManager.authenticated_request frame: position, which exchange, response
    apc, exch_no, response,
    \* GhostClient._make_request frame and what it returned or raised
    use_admin_api, req_pc, req_result,
    \* requests made; exchanges of the current request; when it started;
    \* consecutive completed admin requests lost to network errors or 5xx, and
    \* when the last of them failed
    nreq, req_exchanges, req_at, fail_streak, last_fail_at,
    \* the Retry-After header of the last response (None: header missing)
    retry_after_header,
    \* direct calls of client.circuit_breaker.call made so far
    ndirect,
    \* JWTAuth called directly: the calling threads, the frame of each one's
    \* get_valid_token / invalidate_cache, the last get_valid_token that
    \* returned, the token dropped by an invalidate_cache that no
    \* get_valid_token has followed yet, the calls begun, and which call wrote
    \* _token_cache and _token_expires_at (0: __init__ or invalidate_cache)
    jcallers, jframe, jret, dropped, jcalls, cache_from, expiry_from,
    \* the last validate_token call: its number and its result
    jvalid,
    \* _handle_response called directly: the response and what came back
    hr_response, hr_result,
    \* calculate_delay called directly: the calls and their results
    calc

cbvars == <<failure_threshold, recovery_timeout, expected_exception,
            state, failure_count, last_failure_time, lock,
            callers, pc, current_state, op_exc, entry, invoked, hist>>
rtvars == <<max_retries, base_delay, max_delay, backoff_factor, jitter, metrics,
            rpc, attempt, last_exception, total_delay, op_result,
            rresult, metrics0, nexec, trace>>
auvars == <<token_cache, token_expires_at, cache_stats, apc, exch_no, response>>
rqvars == <<use_admin_api, req_pc, req_result, nreq, req_exchanges, req_at,
            fail_streak, last_fail_at>>
clvars == <<auvars, rqvars>>
jwvars == <<jcallers, jframe, jret, dropped, jcalls, cache_from, expiry_from, jvalid>>
hrvars == <<hr_response, hr_result>>
fnvars == <<ndirect, jwvars, hrvars, calc>>
exvars == <<retry_after_header, fnvars>>
vars == <<now, clock_step, cbvars, rtvars, clvars, exvars>>

(* --------------------------- exception classes ------------------------- *)
RequestExceptions == {"ConnectionError", "Timeout", "HTTPError"}

\* isinstance with every exception taken for an instance of every class
IsInstanceAlways(cls, base) == TRUE

\* isinstance(e, cls) for the exception classes that occur in the core
IsInstance(cls, base) ==
    \/ base = "Exception"
    \/ base = cls
    \/ base = "RequestException" /\ cls \in RequestExceptions
    \/ base = "GhostCtlError" /\ cls \in {"AuthenticationError", "MaxRetriesExceededError",
                                          "CircuitBreakerOpenError"}

(* ------------------------------ clock ---------------------------------- *)
Tick ==
    /\ now < MaxTime * clock_step
    /\ now' = now + clock_step
    /\ UNCHANGED <<clock_step, exvars, cbvars, rtvars, clvars>>

(* --------------------------- CircuitBreaker ---------------------------- *)
\* what a thread has not yet observed at the head of call()
NoEntry == [at |-> 0, state |-> "closed", lft |-> None, fc |-> 0]

\* CircuitBreaker.__init__
InitBreaker(N, rt, exc, cs) ==
    /\ failure_threshold = N
    /\ recovery_timeout = rt
    /\ expected_exception = exc
    /\ state = "closed"
    /\ failure_count = 0
    /\ last_failure_time = None
    /\ lock = 0
    /\ callers = cs
    /\ pc = [t \in Threads |-> "idle"]
    /\ current_state = [t \in Threads |-> "closed"]
    /\ op_exc = [t \in Threads |-> "none"]
    /\ entry = [t \in Threads |-> NoEntry]
    /\ invoked = [t \in Threads |-> FALSE]
    /\ hist = <<>>

\* the three mutable fields, as one value
Fields(s, fc, lft) == [state |-> s, failure_count |-> fc, last_failure_time |-> lft]

\* _can_attempt_call: the verdict
CanAttemptCall(s, lft, t, rt) ==
    IF s = "closed" THEN TRUE
    ELSE IF s = "half_open" THEN TRUE
    ELSE IF lft = None THEN TRUE
    ELSE t - lft >= rt

\* _can_attempt_call: the state it leaves (open -> half_open once the
\* recovery timeout has passed)
StateAfterCanAttemptCall(s, lft, t, rt) ==
    IF s = "open" /\ lft # None /\ t - lft >= rt THEN "half_open" ELSE s

\* _reset
Reset == Fields("closed", 0, None)

\* _record_failure with the threshold compared by > instead of >=
RecordFailureLate(s, fc, t, N) ==
    Fields(IF fc + 1 > N THEN "open" ELSE s, fc + 1, t)

\* _record_failure
RecordFailure(s, fc, t, N) ==
    Fields(IF fc + 1 >= N THEN "open" ELSE s, fc + 1, t)

\* the success path of call(): reset only if admitted in half-open
OnSuccess(cs, s, fc, lft) ==
    IF cs = "half_open" THEN Reset ELSE Fields(s, fc, lft)

\* the failure path without the half-open assignment of _last_failure_time
OnFailureKeepsTime(cs, s, fc, lft, t, N) ==
    IF cs = "half_open" THEN Fields("open", fc, lft) ELSE RecordFailure(s, fc, t, N)

\* the failure path of call() for an expected exception
OnFailure(cs, s, fc, lft, t, N) ==
    IF cs = "half_open" THEN Fields("open", fc, t) ELSE RecordFailure(s, fc, t, N)

\* one completed call, as the caller and get_state_info() see it: what the
\* operation raised and what call() raised, the state at admission, just
\* before the bookkeeping and after it
CallRecord(t, out, adm, ent, f) ==
    [thread |-> t, out |-> out, adm |-> adm, pre |-> ent.state, prelft |-> ent.lft,
     prefc |-> ent.fc, at |-> ent.at, invoked |-> invoked[t], raised |-> op_exc[t],
     was |-> state, end |-> now,
     post |-> f.state, fc |-> f.failure_count, lft |-> f.last_failure_time]

\* `with self._lock:` at the head of call(): thread t now holds the lock
CallAcquired(t) ==
    /\ pc[t] = "idle"
    /\ lock = 0
    /\ lock' = t
    /\ pc' = [pc EXCEPT ![t] = "entry"]
    /\ invoked' = [invoked EXCEPT ![t] = FALSE]
    /\ op_exc' = [op_exc EXCEPT ![t] = "none"]
    /\ UNCHANGED <<failure_threshold, recovery_timeout, expected_exception,
                   state, failure_count, last_failure_time, callers,
                   current_state, entry>>

\* a test thread calls breaker.call(operation)
CallAcquire(t) ==
    /\ t \in callers
    /\ Len(hist) + Cardinality({u \in Threads : pc[u] # "idle"}) < MaxCalls
    /\ CallAcquired(t)
    /\ UNCHANGED <<now, hist>>
    /\ UNCHANGED <<clock_step, exvars, rtvars, clvars>>

\* the admissibility check with the with-block extended over the operation:
\* the lock is still held when the check is done
CallEntryHoldsLock(t) ==
    /\ pc[t] = "entry"
    /\ lock = t
    /\ lock' = t
    /\ entry' = [entry EXCEPT ![t] = [at |-> now, state |-> state, lft |-> last_failure_time,
                                         fc |-> failure_count]]
    /\ state' = StateAfterCanAttemptCall(state, last_failure_time, now, recovery_timeout)
    /\ IF CanAttemptCall(state, last_failure_time, now, recovery_timeout)
       THEN /\ current_state' = [current_state EXCEPT ![t] = state']
            /\ pc' = [pc EXCEPT ![t] = "operation"]
            /\ hist' = hist
       ELSE /\ current_state' = current_state
            /\ pc' = [pc EXCEPT ![t] = "idle"]
            /\ hist' = Append(hist, CallRecord(t, "CircuitBreakerOpenError", "rejected", entry'[t],
                                               Fields(state', failure_count, last_failure_time)))
    /\ UNCHANGED <<clock_step, exvars, rtvars, clvars>>
    /\ UNCHANGED <<now, failure_threshold, recovery_timeout, expected_exception,
                   failure_count, last_failure_time, callers, op_exc, invoked>>

\* admissibility check under the lock; raises CircuitBreakerOpenError or
\* stores current_state and leaves the with-block
CallEntry(t) ==
    /\ pc[t] = "entry"
    /\ lock = t
    /\ lock' = 0
    /\ entry' = [entry EXCEPT ![t] = [at |-> now, state |-> state, lft |-> last_failure_time,
                                         fc |-> failure_count]]
    /\ state' = StateAfterCanAttemptCall(state, last_failure_time, now, recovery_timeout)
    /\ IF CanAttemptCall(state, last_failure_time, now, recovery_timeout)
       THEN /\ current_state' = [current_state EXCEPT ![t] = state']
            /\ pc' = [pc EXCEPT ![t] = "operation"]
            /\ hist' = hist
       ELSE /\ current_state' = current_state
            /\ pc' = [pc EXCEPT ![t] = "idle"]
            /\ hist' = Append(hist, CallRecord(t, "CircuitBreakerOpenError", "rejected", entry'[t],
                                               Fields(state', failure_count, last_failure_time)))
    /\ UNCHANGED <<clock_step, exvars, rtvars, clvars>>
    /\ UNCHANGED <<now, failure_threshold, recovery_timeout, expected_exception,
                   failure_count, last_failure_time, callers, op_exc, invoked>>

\* the protected operation of the unit tests: a Mock that returns or raises
MockExceptions == {"ConnectionError", "ValueError"}
MockOperation(t) ==
    /\ pc[t] = "operation"
    /\ invoked' = [invoked EXCEPT ![t] = TRUE]
    /\ \E r \in {"none"} \cup MockExceptions :
          /\ op_exc' = [op_exc EXCEPT ![t] = r]
          /\ pc' = [pc EXCEPT ![t] = IF r = "none" THEN "returned" ELSE "raised"]
    /\ UNCHANGED <<clock_step, exvars, rtvars, clvars>>
    /\ UNCHANGED <<now, failure_threshold, recovery_timeout, expected_exception,
                   state, failure_count, last_failure_time, lock, callers,
                   current_state, entry, hist>>

\* `with self._lock:` of the success path and of the failure path
CallReacquire(t) ==
    /\ \/ pc[t] = "returned"
       \/ pc[t] = "raised" /\ IsInstance(op_exc[t], expected_exception)
    /\ lock = 0
    /\ lock' = t
    /\ pc' = [pc EXCEPT ![t] = IF pc[t] = "returned" THEN "success" ELSE "failure"]
    /\ UNCHANGED <<clock_step, exvars, rtvars, clvars>>
    /\ UNCHANGED <<now, failure_threshold, recovery_timeout, expected_exception,
                   state, failure_count, last_failure_time, callers,
                   current_state, op_exc, entry, invoked, hist>>

\* bookkeeping under the lock, then return the result or re-raise
CallBookkeeping(t) ==
    /\ pc[t] \in {"success", "failure"}
    /\ lock = t
    /\ lock' = 0
    /\ LET f == IF pc[t] = "success"
                THEN OnSuccess(current_state[t], state, failure_count, last_failure_time)
                ELSE OnFailure(current_state[t], state, failure_count, last_failure_time,
                               now, failure_threshold)
       IN /\ state' = f.state
          /\ failure_count' = f.failure_count
          /\ last_failure_time' = f.last_failure_time
          /\ hist' = Append(hist, CallRecord(t, IF pc[t] = "success" THEN "ok" ELSE op_exc[t],
                                             current_state[t], entry[t], f))
    /\ pc' = [pc EXCEPT ![t] = "idle"]
    /\ UNCHANGED <<clock_step, exvars, rtvars, clvars>>
    /\ UNCHANGED <<now, failure_threshold, recovery_timeout, expected_exception,
                   callers, current_state, op_exc, entry, invoked>>

\* an exception that is not an instance of expected_exception: plain re-raise
CallReraise(t) ==
    /\ pc[t] = "raised"
    /\ ~IsInstance(op_exc[t], expected_exception)
    /\ pc' = [pc EXCEPT ![t] = "idle"]
    /\ hist' = Append(hist, CallRecord(t, op_exc[t], current_state[t], entry[t],
                                       Fields(state, failure_count, last_failure_time)))
    /\ UNCHANGED <<clock_step, exvars, rtvars, clvars>>
    /\ UNCHANGED <<now, failure_threshold, recovery_timeout, expected_exception,
                   state, failure_count, last_failure_time, lock, callers,
                   current_state, op_exc, entry, invoked>>

BreakerCall(t) ==
    \/ CallAcquire(t)
    \/ CallEntry(t)
    \/ CallReacquire(t)
    \/ CallBookkeeping(t)
    \/ CallReraise(t)

(* ----------------------------- RetryManager ----------------------------- *)
\* Delays are held in units of 1/JitterDen second, so that delay * random()
\* is exact for random() drawn from {0, 1/JitterDen, ..., (JitterDen-1)/JitterDen}.
Seconds(n) == n * JitterDen

Min(a, b) == IF a <= b THEN a ELSE b

RECURSIVE Pow(_, _)
Pow(b, e) == IF e <= 0 THEN 1 ELSE b * Pow(b, e - 1)

\* an exception raised by (or the value returned by) operation(): its class,
\* the status of its response (0: no response attached) and the invocation
\* that produced it
Outcome(cls, status, id) == [cls |-> cls, status |-> status, id |-> id]
NoOutcome == Outcome("none", 0, 0)

Metrics(ops, ok, failed, retries, delay) ==
    [total_operations |-> ops, successful_operations |-> ok, failed_operations |-> failed,
     total_retry_attempts |-> retries, total_delay_time |-> delay]

Event(ev, cls, status, arg) == [ev |-> ev, cls |-> cls, status |-> status, arg |-> arg]
OpEvents == SelectSeq(trace, LAMBDA e : e.ev = "op")
SleepEvents == SelectSeq(trace, LAMBDA e : e.ev = "sleep")

\* RetryManager.__init__
InitRetryManager(mr, base, maxd, factor, jit) ==
    /\ max_retries = mr
    /\ base_delay = base
    /\ max_delay = maxd
    /\ backoff_factor = factor
    /\ jitter = jit
    /\ metrics = Metrics(0, 0, 0, 0, 0)
    /\ rpc = "idle"
    /\ attempt = 0
    /\ last_exception = NoOutcome
    /\ total_delay = 0
    /\ op_result = NoOutcome
    /\ rresult = [kind |-> "none", cls |-> "none", attempts |-> 0, value |-> NoOutcome]
    /\ metrics0 = Metrics(0, 0, 0, 0, 0)
    /\ nexec = 0
    /\ trace = <<>>

\* should_retry with the 5xx condition widened to every HTTPError
ShouldRetryAnyHTTPError(e) ==
    \/ e.cls \in {"ConnectionError", "Timeout"}
    \/ e.cls = "HTTPError"

\* should_retry over the two default conditions
ShouldRetry(e) ==
    \/ e.cls \in {"ConnectionError", "Timeout"}
    \/ e.cls = "HTTPError" /\ e.status # 0 /\ e.status >= 500

\* calculate_delay without the max_delay limit
CalculateDelayUnclamped(base, factor, maxd, jit, att, j) ==
    LET delay == base * Pow(factor, att)
    IN  IF jit THEN delay + (delay * j) \div JitterDen ELSE delay

\* calculate_delay with the exponent off by one
CalculateDelayNextPower(base, factor, maxd, jit, att, j) ==
    LET delay == Min(base * Pow(factor, att + 1), maxd)
    IN  IF jit THEN delay + (delay * j) \div JitterDen ELSE delay

\* calculate_delay; j / JitterDen is the value random.random() returns
CalculateDelay(base, factor, maxd, jit, att, j) ==
    LET delay == Min(base * Pow(factor, att), maxd)
    IN  IF jit THEN delay + (delay * j) \div JitterDen ELSE delay

\* the except branch without the last-attempt test
LoopBreaksWithoutLastTest(att, mr, e) == ~ShouldRetry(e)

\* the last-attempt test off by one
LoopBreaksEarly(att, mr, e) == att + 1 = mr \/ ~ShouldRetry(e)

\* the two `break`s of the except branch
LoopBreaks(att, mr, e) == att = mr \/ ~ShouldRetry(e)

\* the error raised after the loop
RaisedError(mr, att, last) ==
    [kind |-> "raise", cls |-> "MaxRetriesExceededError", attempts |-> mr + 1, value |-> last]

\* entry of execute_with_retry up to the first iteration of the loop
ExecuteWithRetryEntered ==
    /\ rpc = "idle"
    /\ metrics' = [metrics EXCEPT !.total_operations = @ + 1]
    /\ metrics0' = metrics
    /\ last_exception' = NoOutcome
    /\ total_delay' = 0
    /\ attempt' = 0
    /\ rpc' = "invoke"
    /\ op_result' = NoOutcome
    /\ rresult' = [kind |-> "none", cls |-> "none", attempts |-> 0, value |-> NoOutcome]
    /\ nexec' = nexec + 1
    /\ trace' = <<>>
    /\ UNCHANGED <<max_retries, base_delay, max_delay, backoff_factor, jitter>>

\* a test calls execute_with_retry(operation) directly
ExecuteWithRetry ==
    /\ nexec < MaxExecs
    /\ ExecuteWithRetryEntered
    /\ UNCHANGED <<now, clock_step, exvars, cbvars, clvars>>

\* operation() of the tests: a Mock that returns or raises
MockOutcomes ==
    { <<"ok", 200>>, <<"ConnectionError", 0>>, <<"HTTPError", 503>>, <<"HTTPError", 404>>,
      <<"ValueError", 0>> }
RetryMockOperation ==
    /\ rpc = "invoke"
    /\ \E o \in MockOutcomes :
          /\ op_result' = Outcome(o[1], o[2], Len(OpEvents) + 1)
          /\ trace' = Append(trace, Event("op", o[1], o[2], Len(OpEvents) + 1))
    /\ rpc' = "handle"
    /\ UNCHANGED <<max_retries, base_delay, max_delay, backoff_factor, jitter, metrics,
                   attempt, last_exception, total_delay, rresult, metrics0, nexec>>
    /\ UNCHANGED <<now, clock_step, exvars, cbvars, clvars>>

\* the rest of one loop iteration once operation() has returned or raised:
\* return the result, or break and raise, or sleep and go round again
RetryHandle ==
    /\ rpc = "handle"
    /\ IF op_result.cls = "ok"
       THEN /\ metrics' = [metrics EXCEPT !.successful_operations = @ + 1,
                                          !.total_delay_time = @ + total_delay]
            /\ rresult' = [kind |-> "return", cls |-> "none", attempts |-> 0, value |-> op_result]
            /\ rpc' = "returned"
            /\ UNCHANGED <<attempt, last_exception, total_delay, trace>>
       ELSE /\ last_exception' = op_result
            /\ IF LoopBreaks(attempt, max_retries, op_result)
               THEN /\ metrics' = [metrics EXCEPT !.failed_operations = @ + 1,
                                                  !.total_delay_time = @ + total_delay]
                    /\ rresult' = RaisedError(max_retries, attempt, op_result)
                    /\ rpc' = "raised"
                    /\ UNCHANGED <<attempt, total_delay, trace>>
               ELSE \E j \in (IF jitter THEN 0..(JitterDen - 1) ELSE {0}) :
                      LET delay == CalculateDelay(base_delay, backoff_factor, max_delay,
                                                  jitter, attempt, j)
                      IN  /\ total_delay' = total_delay + delay
                          /\ trace' = Append(trace, Event("sleep", "", 0, delay))
                          /\ IF attempt + 1 <= max_retries
                             THEN /\ attempt' = attempt + 1
                                  /\ rpc' = "invoke"
                                  /\ metrics' = [metrics EXCEPT !.total_retry_attempts = @ + 1]
                                  /\ UNCHANGED rresult
                             ELSE /\ attempt' = attempt
                                  /\ rpc' = "raised"
                                  /\ metrics' = [metrics EXCEPT
                                         !.total_retry_attempts = @ + 1,
                                         !.failed_operations = @ + 1,
                                         !.total_delay_time = @ + total_delay']
                                  /\ rresult' = RaisedError(max_retries, attempt, op_result)
    /\ UNCHANGED <<max_retries, base_delay, max_delay, backoff_factor, jitter,
                   op_result, metrics0, nexec>>
    /\ UNCHANGED <<now, clock_step, exvars, cbvars, clvars>>

\* the test receives the value or the exception
RetryReturn ==
    /\ rpc \in {"returned", "raised"}
    /\ rpc' = "idle"
    /\ UNCHANGED <<max_retries, base_delay, max_delay, backoff_factor, jitter, metrics,
                   attempt, last_exception, total_delay, op_result, rresult, metrics0,
                   nexec, trace>>
    /\ UNCHANGED <<now, clock_step, exvars, cbvars, clvars>>

\* a test calls calculate_delay(attempt) directly
CalculateDelayCall ==
    /\ Len(calc) < MaxDelayCalls
    /\ \E att \in 0..MaxAttempt, j \in (IF jitter THEN 0..(JitterDen - 1) ELSE {0}) :
          calc' = Append(calc, [attempt |-> att,
                                delay |-> CalculateDelay(base_delay, backoff_factor,
                                                         max_delay, jitter, att, j)])
    /\ UNCHANGED <<now, clock_step, cbvars, rtvars, clvars, retry_after_header,
                   ndirect, jwvars, hrvars>>

(* ------------------------- what the errors carry ------------------------ *)
\* the Retry-After header of a response: missing, or a number of seconds
RetryAfterHeaders == {None, 60}

\* the `details` of a GhostCtlError, as far as the callers read them
Details(status_code, retry_after) == [status_code |-> status_code, retry_after |-> retry_after]
NoDetails == Details(None, None)

\* details of the AuthenticationError raised for a response status; the
\* errors raised for a RequestException are built without details
ErrorDetails(status, header) ==
    IF status = 0 THEN NoDetails
    ELSE IF status = 429 THEN Details(429, header)
    ELSE Details(status, None)

\* an exception as _make_request's caller holds it: MaxRetriesExceededError
\* and CircuitBreakerOpenError are built with a message only (empty details);
\* the former keeps the error of the last attempt in last_exception
NoException == [cls |-> "none", details |-> NoDetails]
NothingRaised == [kind |-> "none", cls |-> "none", details |-> NoDetails,
                  last_exception |-> NoException]
Returned == [kind |-> "return", cls |-> "none", details |-> NoDetails,
             last_exception |-> NoException]
RaisedToCaller(cls, last, header) ==
    [kind |-> "raise", cls |-> cls, details |-> NoDetails,
     last_exception |-> IF cls = "MaxRetriesExceededError"
                        THEN [cls |-> last.cls, details |-> ErrorDetails(last.status, header)]
                        ELSE NoException]

(* ------------------------------- JWTAuth -------------------------------- *)
\* a signed token is determined by its claims: iat and exp (key and audience
\* are fixed); NoToken is the empty cache
Token(iat, exp) == [iat |-> iat, exp |-> exp]
NoToken == Token(None, None)

\* generate_token(expires_in) at clock value t
GenerateToken(t, expires_in) == Token(t, t + expires_in)

\* get_valid_token without the cache check: every call signs a token
GetValidTokenNoCache(cache, expires_at, t, min_remaining) ==
    [token |-> GenerateToken(t, TokenLifetime),
     cache |-> GenerateToken(t, TokenLifetime),
     expires_at |-> t + TokenLifetime, hit |-> FALSE]

\* get_valid_token with the remaining lifetime compared by >= instead of >
GetValidTokenAtLeast(cache, expires_at, t, min_remaining) ==
    IF cache # NoToken /\ expires_at # None /\ expires_at # 0
          /\ expires_at - t >= min_remaining
    THEN [token |-> cache, cache |-> cache, expires_at |-> expires_at, hit |-> TRUE]
    ELSE [token |-> GenerateToken(t, TokenLifetime),
          cache |-> GenerateToken(t, TokenLifetime),
          expires_at |-> t + TokenLifetime, hit |-> FALSE]

\* get_valid_token(min_remaining) at clock value t: the token returned, the
\* cache it leaves and whether the cache was hit
GetValidToken(cache, expires_at, t, min_remaining) ==
    IF cache # NoToken /\ expires_at # None /\ expires_at # 0
          /\ expires_at - t > min_remaining
    THEN [token |-> cache, cache |-> cache, expires_at |-> expires_at, hit |-> TRUE]
    ELSE [token |-> GenerateToken(t, TokenLifetime),
          cache |-> GenerateToken(t, TokenLifetime),
          expires_at |-> t + TokenLifetime, hit |-> FALSE]

\* JWTAuth.__init__ and the idle frames of AuthManager and GhostClient
InitAuth ==
    /\ token_cache = NoToken
    /\ token_expires_at = None
    /\ cache_stats = [hits |-> 0, misses |-> 0]
    /\ apc = "idle"
    /\ exch_no = 0
    /\ response = 0
    /\ retry_after_header = None
    /\ use_admin_api = FALSE
    /\ req_pc = "idle"
    /\ req_result = NothingRaised
    /\ nreq = 0
    /\ req_exchanges = 0
    /\ req_at = 0
    /\ fail_streak = 0
    /\ last_fail_at = 0

(* ------------------ JWTAuth called directly by threads ------------------ *)
\* the three fields of a JWTAuth, as one value
CacheState(cache, expires_at, stats) ==
    [cache |-> cache, expires_at |-> expires_at, stats |-> stats]

\* the frame of a thread that is not inside JWTAuth
NoFrame ==
    [pc |-> "idle", id |-> 0, now |-> 0, min_remaining |-> 0, token |-> NoToken,
     pre |-> CacheState(NoToken, None, [hits |-> 0, misses |-> 0]), after |-> NoToken]

\* one returned get_valid_token: its arguments and `now`, the cache before and
\* after, the token invalidated just before it, what it returned
TokenReturn(t, f, tok, hit, post) ==
    [id |-> f.id, thread |-> t, now |-> f.now, min_remaining |-> f.min_remaining,
     pre |-> f.pre, after |-> f.after, token |-> tok, hit |-> hit, post |-> post,
     end |-> now]
NoReturn ==
    [id |-> 0, thread |-> 0, now |-> 0, min_remaining |-> 0,
     pre |-> NoFrame.pre, after |-> NoToken, token |-> NoToken, hit |-> FALSE,
     post |-> NoFrame.pre, end |-> 0]

\* the clock values at which the callers run
JwtTimes == {1000, 1100, 1240, 1250}
MinRemainings == {DefaultMinRemaining, TokenLifetime - 1}

\* time passes between two statements
JwtClock ==
    /\ \E t \in JwtTimes : t > now /\ now' = t
    /\ UNCHANGED <<clock_step, cbvars, rtvars, clvars, exvars>>

\* get_valid_token(min_remaining) is entered: `now = time.time()`
GetValidTokenCall(t) ==
    /\ t \in jcallers
    /\ jframe[t].pc = "idle"
    /\ jcalls < MaxJwtCalls
    /\ jcalls' = jcalls + 1
    /\ \E m \in MinRemainings :
          jframe' = [jframe EXCEPT ![t] =
                        [pc |-> "check", id |-> jcalls + 1, now |-> now, min_remaining |-> m,
                         token |-> NoToken,
                         pre |-> CacheState(token_cache, token_expires_at, cache_stats),
                         after |-> dropped]]
    /\ UNCHANGED <<token_cache, token_expires_at, cache_stats, jcallers, jvalid, jret, dropped,
                   cache_from, expiry_from>>

\* the `if` of get_valid_token and the counter of the branch taken
CheckCache(t) ==
    /\ jframe[t].pc = "check"
    /\ IF GetValidToken(token_cache, token_expires_at, jframe[t].now,
                        jframe[t].min_remaining).hit
       THEN /\ cache_stats' = [cache_stats EXCEPT !.hits = @ + 1]
            /\ jframe' = [jframe EXCEPT ![t].pc = "hit"]
       ELSE /\ cache_stats' = [cache_stats EXCEPT !.misses = @ + 1]
            /\ jframe' = [jframe EXCEPT ![t].pc = "generate"]
    /\ UNCHANGED <<token_cache, token_expires_at, jcallers, jvalid, jret, dropped, jcalls,
                   cache_from, expiry_from>>

\* `return self._token_cache`
ReturnCached(t) ==
    /\ jframe[t].pc = "hit"
    /\ jret' = TokenReturn(t, jframe[t], token_cache, TRUE,
                           CacheState(token_cache, token_expires_at, cache_stats))
    /\ dropped' = NoToken
    /\ jframe' = [jframe EXCEPT ![t] = NoFrame]
    /\ UNCHANGED <<token_cache, token_expires_at, cache_stats, jcallers, jvalid, jcalls,
                   cache_from, expiry_from>>

\* `token = self.generate_token(expires_in)`: the clock is read again
GenerateTokenCall(t) ==
    /\ jframe[t].pc = "generate"
    /\ jframe' = [jframe EXCEPT ![t].token = GenerateToken(now, TokenLifetime),
                                ![t].pc = "store_token"]
    /\ UNCHANGED <<token_cache, token_expires_at, cache_stats, jcallers, jvalid, jret, dropped,
                   jcalls, cache_from, expiry_from>>

\* `self._token_cache = token`
StoreToken(t) ==
    /\ jframe[t].pc = "store_token"
    /\ token_cache' = jframe[t].token
    /\ cache_from' = jframe[t].id
    /\ jframe' = [jframe EXCEPT ![t].pc = "store_expiry"]
    /\ UNCHANGED <<token_expires_at, cache_stats, jcallers, jvalid, jret, dropped, jcalls,
                   expiry_from>>

\* `self._token_expires_at = now + expires_in`, then `return token`
StoreExpiry(t) ==
    /\ jframe[t].pc = "store_expiry"
    /\ token_expires_at' = jframe[t].now + TokenLifetime
    /\ expiry_from' = jframe[t].id
    /\ jret' = TokenReturn(t, jframe[t], jframe[t].token, FALSE,
                           CacheState(token_cache, token_expires_at', cache_stats))
    /\ dropped' = NoToken
    /\ jframe' = [jframe EXCEPT ![t] = NoFrame]
    /\ UNCHANGED <<token_cache, cache_stats, jcallers, jvalid, jcalls, cache_from>>

\* invalidate_cache is entered: `self._token_cache = None`
InvalidateCache(t) ==
    /\ t \in jcallers
    /\ jframe[t].pc = "idle"
    /\ jcalls < MaxJwtCalls
    /\ jcalls' = jcalls + 1
    /\ dropped' = IF token_cache # NoToken THEN token_cache ELSE dropped
    /\ token_cache' = NoToken
    /\ cache_from' = 0
    /\ jframe' = [jframe EXCEPT ![t].pc = "clear_expiry"]
    /\ UNCHANGED <<token_expires_at, cache_stats, jcallers, jvalid, jret, expiry_from>>

\* `self._token_expires_at = None`
InvalidateExpiry(t) ==
    /\ jframe[t].pc = "clear_expiry"
    /\ token_expires_at' = None
    /\ expiry_from' = 0
    /\ jframe' = [jframe EXCEPT ![t] = NoFrame]
    /\ UNCHANGED <<token_cache, cache_stats, jcallers, jvalid, jret, dropped, jcalls, cache_from>>

\* validate_token(token) at clock value t: the cached token stands in for a
\* missing argument; an empty token is invalid; jwt.decode rejects a token
\* whose exp has passed
ValidateToken(token, cache, t) ==
    LET tok == IF token = NoToken THEN cache ELSE token
    IN  tok # NoToken /\ tok.exp > t

NotValidated == [id |-> 0, result |-> FALSE]

\* a thread calls validate_token(), or validate_token(the token last returned)
ValidateTokenCall(t) ==
    /\ t \in jcallers
    /\ jframe[t].pc = "idle"
    /\ jcalls < MaxJwtCalls
    /\ jcalls' = jcalls + 1
    /\ \E tok \in {NoToken, jret.token} :
          jvalid' = [id |-> jcalls + 1, result |-> ValidateToken(tok, token_cache, now)]
    /\ UNCHANGED <<token_cache, token_expires_at, cache_stats, jcallers, jframe, jret,
                   dropped, cache_from, expiry_from>>

JwtCall(t) ==
    /\ \/ GetValidTokenCall(t)
       \/ CheckCache(t)
       \/ ReturnCached(t)
       \/ GenerateTokenCall(t)
       \/ StoreToken(t)
       \/ StoreExpiry(t)
       \/ InvalidateCache(t)
       \/ InvalidateExpiry(t)
       \/ ValidateTokenCall(t)
    /\ UNCHANGED <<apc, exch_no, response, rqvars, retry_after_header, ndirect, hrvars, calc>>
    /\ UNCHANGED <<now, clock_step, cbvars, rtvars>>

(* --------------------- frames of the direct callers --------------------- *)
NoResponse == [status_code |-> 0, retry_after |-> None, body |-> "none"]
NotHandled ==
    [kind |-> "none", cls |-> "none", status_code |-> None, response_data |-> "none",
     retry_after |-> None]

InitDirect(jc) ==
    /\ ndirect = 0
    /\ jcallers = jc
    /\ jframe = [t \in Threads |-> NoFrame]
    /\ jret = NoReturn
    /\ dropped = NoToken
    /\ jcalls = 0
    /\ cache_from = 0
    /\ expiry_from = 0
    /\ jvalid = NotValidated
    /\ hr_response = NoResponse
    /\ hr_result = NotHandled
    /\ calc = << >>

(* ---------------------- GhostClient._handle_response -------------------- *)
\* what _handle_response returns or raises; an APIError carries status_code
\* and response_data, a RateLimitError also retry_after, requests' HTTPError
\* carries the response itself
Handled(kind, cls, resp, data, retry_after) ==
    [kind |-> kind, cls |-> cls, status_code |-> resp.status_code,
     response_data |-> data, retry_after |-> retry_after]

\* _handle_response(response): response.json() that fails leaves error_data
\* empty; statuses without a branch fall through to raise_for_status()
HandleResponse(resp) ==
    LET sc == resp.status_code
        error_data == IF resp.body = "invalid" THEN "{}" ELSE resp.body
        raise(cls) == Handled("raise", cls, resp, error_data, None)
    IN  IF sc = 400 THEN raise("BadRequestError")
        ELSE IF sc = 401 THEN raise("UnauthorizedError")
        ELSE IF sc = 403 THEN raise("ForbiddenError")
        ELSE IF sc = 404 THEN raise("NotFoundError")
        ELSE IF sc = 422 THEN raise("BadRequestError")
        ELSE IF sc = 429
             THEN Handled("raise", "RateLimitError", resp, error_data, resp.retry_after)
        ELSE IF sc >= 500 THEN raise("ServerError")
        ELSE IF sc >= 400 THEN raise("HTTPError")
        ELSE IF resp.body = "invalid" THEN raise("JSONDecodeError")
        ELSE Handled("return", "none", resp, resp.body, None)

\* a response comes back from session.request
StatusCodes == {200, 201, 204, 301, 400, 401, 403, 404, 405, 409, 422, 429, 500, 502, 503}
ResponseArrives ==
    /\ \E sc \in StatusCodes, ra \in RetryAfterHeaders, body \in {"payload", "invalid"} :
          hr_response' = [status_code |-> sc, retry_after |-> ra, body |-> body]
    /\ hr_result' = NotHandled
    /\ UNCHANGED <<now, clock_step, cbvars, rtvars, clvars, retry_after_header,
                   ndirect, jwvars, calc>>

\* _handle_response is applied to it
HandleResponseCall ==
    /\ hr_response # NoResponse
    /\ hr_result = NotHandled
    /\ hr_result' = HandleResponse(hr_response)
    /\ UNCHANGED <<now, clock_step, cbvars, rtvars, clvars, retry_after_header,
                   ndirect, jwvars, calc, hr_response>>

(* ------------------- AuthManager.authenticated_request ------------------ *)
\* get_admin_headers: fetch the token, count the hit or the miss
AdminHeadersFetched(events) ==
    LET r == GetValidToken(token_cache, token_expires_at, now, DefaultMinRemaining)
    IN  /\ token_cache' = r.cache
        /\ token_expires_at' = r.expires_at
        /\ cache_stats' = IF r.hit THEN [cache_stats EXCEPT !.hits = @ + 1]
                                   ELSE [cache_stats EXCEPT !.misses = @ + 1]
        /\ trace' = trace \o events
                    \o << Event("token", IF r.hit THEN "hit" ELSE "miss", 0, r.token.iat) >>

\* the 401 branch taken again for the response of the retried exchange
NeedsReauthEveryTime(status, admin, n) == status = 401 /\ admin /\ n <= 2

\* the 401 branch: taken for an admin request, once, before the status checks
NeedsReauth(status, admin, n) == status = 401 /\ admin /\ n = 1

\* the status checks after the exchanges: what authenticated_request returns
\* or raises for a response status (0: session.request raised RequestException)
Classify(status) ==
    IF status = 0 THEN <<"AuthenticationError", 0>>
    ELSE IF status = 429 THEN <<"AuthenticationError", 429>>
    ELSE IF status = 401 THEN <<"AuthenticationError", 401>>
    ELSE IF status >= 400 /\ status < 500 THEN <<"AuthenticationError", status>>
    ELSE IF status >= 500 THEN <<"AuthenticationError", status>>
    ELSE <<"ok", status>>

\* entry of authenticated_request: set up the headers
AuthBegin ==
    /\ rpc = "invoke"
    /\ apc = "idle"
    /\ IF use_admin_api
       THEN AdminHeadersFetched(<< >>)
       ELSE UNCHANGED <<token_cache, token_expires_at, cache_stats, trace>>
    /\ apc' = "exchange"
    /\ exch_no' = 1
    /\ UNCHANGED <<response, rqvars>>
    /\ UNCHANGED <<max_retries, base_delay, max_delay, backoff_factor, jitter, metrics,
                   rpc, attempt, last_exception, total_delay, op_result, rresult,
                   metrics0, nexec>>
    /\ UNCHANGED <<now, clock_step, exvars, cbvars>>

\* session.request: the server answers with a status, or the transport raises
ExchangeOutcomes == {0, 200, 401, 404, 429, 500}
Exchange ==
    /\ apc = "exchange"
    /\ \E st \in ExchangeOutcomes :
          /\ response' = st
          /\ trace' = Append(trace, Event("exchange", "", st, exch_no))
          /\ retry_after_header' \in (IF st = 429 THEN RetryAfterHeaders ELSE {None})
    /\ req_exchanges' = req_exchanges + 1
    /\ apc' = "response"
    /\ UNCHANGED <<token_cache, token_expires_at, cache_stats, exch_no>>
    /\ UNCHANGED <<use_admin_api, req_pc, req_result, nreq, req_at,
                   fail_streak, last_fail_at>>
    /\ UNCHANGED <<max_retries, base_delay, max_delay, backoff_factor, jitter, metrics,
                   rpc, attempt, last_exception, total_delay, op_result, rresult,
                   metrics0, nexec>>
    /\ UNCHANGED <<now, clock_step, fnvars, cbvars>>

\* after an exchange: invalidate the cache and go round once for a 401, or
\* return the body / raise AuthenticationError to execute_with_retry
AuthRespond ==
    /\ apc = "response"
    /\ IF NeedsReauth(response, use_admin_api, exch_no)
       THEN /\ LET r == GetValidToken(NoToken, None, now, DefaultMinRemaining)
               IN  /\ token_cache' = r.cache
                   /\ token_expires_at' = r.expires_at
                   /\ cache_stats' = IF r.hit THEN [cache_stats EXCEPT !.hits = @ + 1]
                                              ELSE [cache_stats EXCEPT !.misses = @ + 1]
                   /\ trace' = trace \o << Event("invalidate", "", 0, 0),
                                           Event("token", IF r.hit THEN "hit" ELSE "miss",
                                                 0, r.token.iat) >>
            /\ apc' = "exchange"
            /\ exch_no' = 2
            /\ UNCHANGED <<rpc, op_result>>
       ELSE /\ LET c == Classify(response)
                   o == Outcome(c[1], c[2], Len(OpEvents) + 1)
               IN  /\ op_result' = o
                   /\ trace' = Append(trace, Event("op", o.cls, o.status, o.id))
            /\ rpc' = "handle"
            /\ apc' = "idle"
            /\ UNCHANGED <<token_cache, token_expires_at, cache_stats, exch_no>>
    /\ UNCHANGED <<response, rqvars>>
    /\ UNCHANGED <<max_retries, base_delay, max_delay, backoff_factor, jitter, metrics,
                   attempt, last_exception, total_delay, rresult, metrics0, nexec>>
    /\ UNCHANGED <<now, clock_step, exvars, cbvars>>

(* ----------------------- GhostClient._make_request ---------------------- *)
\* `if use_admin_api:` with every request sent through the breaker
ThroughBreakerAlways(admin) == TRUE

\* `if use_admin_api:` of _make_request: the requests wrapped in
\* circuit_breaker.call
ThroughBreaker(admin) == admin

\* a command calls _make_request: admin requests enter circuit_breaker.call,
\* content requests enter execute_with_retry directly
MakeRequest ==
    /\ req_pc = "idle"
    /\ nreq < MaxRequests
    /\ \E admin \in BOOLEAN :
          /\ use_admin_api' = admin
          /\ IF ThroughBreaker(admin)
             THEN /\ CallAcquired(1)
                  /\ UNCHANGED rtvars
             ELSE /\ ExecuteWithRetryEntered
                  /\ UNCHANGED <<failure_threshold, recovery_timeout, expected_exception,
                                 state, failure_count, last_failure_time, lock, callers,
                                 pc, current_state, op_exc, entry, invoked>>
    /\ hist' = << >>
    /\ req_pc' = "running"
    /\ req_result' = NothingRaised
    /\ nreq' = nreq + 1
    /\ req_exchanges' = 0
    /\ req_at' = now
    /\ UNCHANGED <<fail_streak, last_fail_at, auvars, now, clock_step, exvars>>

\* the breaker invokes its operation: the lambda enters execute_with_retry
ClientOperation ==
    /\ ThroughBreaker(use_admin_api)
    /\ pc[1] = "operation"
    /\ ~invoked[1]
    /\ invoked' = [invoked EXCEPT ![1] = TRUE]
    /\ ExecuteWithRetryEntered
    /\ UNCHANGED <<failure_threshold, recovery_timeout, expected_exception,
                   state, failure_count, last_failure_time, lock, callers,
                   pc, current_state, op_exc, entry, hist>>
    /\ UNCHANGED <<now, clock_step, exvars, clvars>>

\* execute_with_retry hands its value or its exception back to the breaker
ClientOperationDone ==
    /\ ThroughBreaker(use_admin_api)
    /\ pc[1] = "operation"
    /\ rpc \in {"returned", "raised"}
    /\ pc' = [pc EXCEPT ![1] = rpc]
    /\ op_exc' = [op_exc EXCEPT ![1] = rresult.cls]
    /\ rpc' = "idle"
    /\ UNCHANGED <<failure_threshold, recovery_timeout, expected_exception,
                   state, failure_count, last_failure_time, lock, callers,
                   current_state, entry, invoked, hist>>
    /\ UNCHANGED <<max_retries, base_delay, max_delay, backoff_factor, jitter, metrics,
                   attempt, last_exception, total_delay, op_result, rresult, metrics0,
                   nexec, trace>>
    /\ UNCHANGED <<now, clock_step, exvars, clvars>>

\* every exchange of the request was lost to the network or answered 5xx
AllExchangesFailed ==
    LET x == SelectSeq(trace, LAMBDA e : e.ev = "exchange")
    IN  Len(x) > 0 /\ \A i \in 1..Len(x) : x[i].status = 0 \/ x[i].status >= 500

\* _make_request returns or raises to the command
RequestDone ==
    /\ req_pc = "running"
    /\ IF ThroughBreaker(use_admin_api)
       THEN /\ pc[1] = "idle"
            /\ Len(hist) = 1
            /\ req_result' = IF hist[1].out = "ok" THEN Returned
                              ELSE RaisedToCaller(hist[1].out, rresult.value, retry_after_header)
            /\ fail_streak' = IF hist[1].out = "CircuitBreakerOpenError" THEN fail_streak
                              ELSE IF hist[1].out # "ok" /\ AllExchangesFailed
                                   THEN fail_streak + 1 ELSE 0
            /\ last_fail_at' = IF hist[1].out \notin {"ok", "CircuitBreakerOpenError"}
                                  /\ AllExchangesFailed
                               THEN now ELSE last_fail_at
            /\ UNCHANGED rpc
       ELSE /\ rpc \in {"returned", "raised"}
            /\ req_result' = IF rresult.kind = "return" THEN Returned
                              ELSE RaisedToCaller(rresult.cls, rresult.value, retry_after_header)
            /\ rpc' = "idle"
            /\ UNCHANGED <<fail_streak, last_fail_at>>
    /\ req_pc' = "idle"
    /\ UNCHANGED <<use_admin_api, nreq, req_exchanges, req_at, auvars>>
    /\ UNCHANGED <<max_retries, base_delay, max_delay, backoff_factor, jitter, metrics,
                   attempt, last_exception, total_delay, op_result, rresult, metrics0,
                   nexec, trace>>
    /\ UNCHANGED <<now, clock_step, exvars, cbvars>>

\* client.circuit_breaker.call(operation) made directly between two requests,
\* with a mocked operation that returns or raises
DirectBreakerCall ==
    /\ req_pc = "idle"
    /\ pc[1] = "idle"
    /\ lock = 0
    /\ ndirect < MaxDirect
    /\ ndirect' = ndirect + 1
    /\ LET cs == StateAfterCanAttemptCall(state, last_failure_time, now, recovery_timeout)
       IN  IF ~CanAttemptCall(state, last_failure_time, now, recovery_timeout)
           THEN /\ state' = cs
                /\ UNCHANGED <<failure_count, last_failure_time>>
           ELSE \E r \in {"none"} \cup MockExceptions :
                   LET f == IF r = "none"
                            THEN OnSuccess(cs, cs, failure_count, last_failure_time)
                            ELSE IF IsInstance(r, expected_exception)
                            THEN OnFailure(cs, cs, failure_count, last_failure_time,
                                           now, failure_threshold)
                            ELSE Fields(cs, failure_count, last_failure_time)
                   IN  /\ state' = f.state
                       /\ failure_count' = f.failure_count
                       /\ last_failure_time' = f.last_failure_time
    /\ UNCHANGED <<failure_threshold, recovery_timeout, expected_exception, lock,
                   callers, pc, current_state, op_exc, entry, invoked, hist>>
    /\ UNCHANGED <<now, clock_step, rtvars, clvars, retry_after_header, jwvars, hrvars, calc>>

\* the clock of the client: a request lasts less than one clock step, so
\* time passes between two requests
ClientTick ==
    /\ req_pc = "idle"
    /\ Tick

\* _make_request called a few times
MakeRequestFew ==
    /\ nreq < MaxDirectRequests
    /\ MakeRequest

(* ------------- sequential calls on one breaker, mocked operation ------- *)
InitBreakerSeq ==
    /\ now = 0
    /\ InitDirect({})
    /\ clock_step = 1
    /\ InitAuth
    /\ \E N \in 1..MaxThreshold, rt \in 1..MaxRecovery,
          exc \in {"ConnectionError"} :
          InitBreaker(N, rt, exc, {1})
    /\ InitRetryManager(3, Seconds(1), Seconds(60), 2, TRUE)

NextBreakerSeq ==
    \/ Tick
    \/ \E t \in Threads : BreakerCall(t)
    \/ \E t \in Threads : MockOperation(t)

SpecBreakerSeq == InitBreakerSeq /\ [][NextBreakerSeq]_vars

(* ------------- concurrent calls on one breaker, mocked operation -------- *)
InitBreakerThreads ==
    /\ now = 0
    /\ InitDirect({})
    /\ clock_step = 1
    /\ InitAuth
    /\ \E N \in 1..MaxThreshold, rt \in 1..MaxRecovery,
          exc \in {"ConnectionError"} :
          InitBreaker(N, rt, exc, Threads)
    /\ InitRetryManager(3, Seconds(1), Seconds(60), 2, TRUE)

SpecBreakerThreads == InitBreakerThreads /\ [][NextBreakerSeq]_vars

(* --- a few calls of two threads on a breaker of threshold 1, timeout 1 -- *)
InitBreakerPair ==
    /\ now = 0
    /\ InitDirect({})
    /\ clock_step = 1
    /\ InitAuth
    /\ InitBreaker(1, 1, "ConnectionError", {1, 2})
    /\ InitRetryManager(3, Seconds(1), Seconds(60), 2, TRUE)

\* a thread calls breaker.call(operation), a few calls in all
CallAcquireFew(t) ==
    /\ Len(hist) + Cardinality({u \in Threads : pc[u] # "idle"}) < MaxPairCalls
    /\ CallAcquire(t)

NextBreakerPair ==
    \/ Tick
    \/ \E t \in Threads : CallAcquireFew(t)
    \/ \E t \in Threads : CallEntry(t)
    \/ \E t \in Threads : MockOperation(t)
    \/ \E t \in Threads : CallReacquire(t)
    \/ \E t \in Threads : CallBookkeeping(t)
    \/ \E t \in Threads : CallReraise(t)

SpecBreakerPair == InitBreakerPair /\ [][NextBreakerPair]_vars

(* ------------- execute_with_retry over a mocked operation --------------- *)
InitRetry ==
    /\ now = 0
    /\ InitDirect({})
    /\ clock_step = 1
    /\ InitAuth
    /\ InitBreaker(5, 30, "Exception", {})
    /\ \E mr \in 0..MaxRetriesBound, base \in 1..MaxBaseDelay, factor \in 2..MaxFactor,
          jit \in BOOLEAN :
          \E maxd \in {base, MaxMaxDelay} :
             InitRetryManager(mr, Seconds(base), Seconds(maxd), factor, jit)

NextRetry ==
    \/ ExecuteWithRetry
    \/ RetryMockOperation
    \/ RetryHandle
    \/ RetryReturn

SpecRetry == InitRetry /\ [][NextRetry]_vars

\* one execute_with_retry, with every invocation of operation() returning or
\* raising and the interpreter going on to the next statement
ExecuteWithRetryOnce ==
    /\ nexec = 0
    /\ ExecuteWithRetry

NextRetryOnce ==
    \/ ExecuteWithRetryOnce
    \/ RetryMockOperation
    \/ RetryHandle
    \/ RetryReturn

SpecRetryLive == InitRetry /\ [][NextRetryOnce]_vars /\ WF_vars(NextRetryOnce)


(* ------------- GhostClient: requests of one client, one thread ---------- *)
\* GhostClient.__init__
InitClient ==
    /\ now = 0
    /\ InitDirect({})
    /\ clock_step = ClientClockStep
    /\ InitBreaker(ClientFailureThreshold, ClientRecoveryTimeout, "RequestException", {})
    /\ InitRetryManager(DefaultRetryAttempts, Seconds(1), Seconds(30), 2, TRUE)
    /\ InitAuth

NextClient ==
    \/ ClientTick
    \/ MakeRequest
    \/ CallEntry(1)
    \/ ClientOperation
    \/ AuthBegin
    \/ Exchange
    \/ AuthRespond
    \/ RetryHandle
    \/ ClientOperationDone
    \/ CallReacquire(1)
    \/ CallBookkeeping(1)
    \/ CallReraise(1)
    \/ RequestDone

SpecClient == InitClient /\ [][NextClient]_vars

(* ------------- JWTAuth: calls of one thread, and of several ------------- *)
InitJwt ==
    /\ now = 1000
    /\ clock_step = 1
    /\ InitAuth
    /\ InitBreaker(5, 30, "Exception", {})
    /\ InitRetryManager(3, Seconds(1), Seconds(60), 2, TRUE)
    /\ InitDirect({1})

NextJwt ==
    \/ JwtClock
    \/ \E t \in Threads : JwtCall(t)

SpecJwt == InitJwt /\ [][NextJwt]_vars

InitJwtThreads ==
    /\ now = 1000
    /\ clock_step = 1
    /\ InitAuth
    /\ InitBreaker(5, 30, "Exception", {})
    /\ InitRetryManager(3, Seconds(1), Seconds(60), 2, TRUE)
    /\ InitDirect(Threads)

SpecJwtThreads == InitJwtThreads /\ [][NextJwt]_vars

(* ------------- _handle_response applied to one response at a time ------- *)
InitHandleResponse ==
    /\ now = 0
    /\ clock_step = 1
    /\ InitAuth
    /\ InitBreaker(ClientFailureThreshold, ClientRecoveryTimeout, "RequestException", {})
    /\ InitRetryManager(DefaultRetryAttempts, Seconds(1), Seconds(30), 2, TRUE)
    /\ InitDirect({})

NextHandleResponse ==
    \/ ResponseArrives
    \/ HandleResponseCall

SpecHandleResponse == InitHandleResponse /\ [][NextHandleResponse]_vars

(* ------------- calculate_delay called with one attempt at a time -------- *)
InitDelay ==
    /\ now = 0
    /\ clock_step = 1
    /\ InitAuth
    /\ InitBreaker(5, 30, "Exception", {})
    /\ InitDirect({})
    /\ \E base \in 1..MaxBaseDelay, factor \in 2..MaxFactor, jit \in BOOLEAN :
          \E maxd \in {base, MaxMaxDelay} :
             InitRetryManager(3, Seconds(base), Seconds(maxd), factor, jit)

NextDelay == CalculateDelayCall

SpecDelay == InitDelay /\ [][NextDelay]_vars

(* ------------- GhostClient whose breaker is also called directly -------- *)
NextClientDirect ==
    \/ ClientTick
    \/ DirectBreakerCall
    \/ MakeRequestFew
    \/ CallEntry(1)
    \/ ClientOperation
    \/ AuthBegin
    \/ Exchange
    \/ AuthRespond
    \/ RetryHandle
    \/ ClientOperationDone
    \/ CallReacquire(1)
    \/ CallBookkeeping(1)
    \/ CallReraise(1)
    \/ RequestDone

SpecClientDirect == InitClient /\ [][NextClientDirect]_vars

(* ======================= claims on the circuit breaker ================== *)
\* the i-th completed call failed with an exception the breaker counts
ExpectedFailure(i) ==
    /\ hist[i].out \notin {"ok", "CircuitBreakerOpenError"}
    /\ IsInstance(hist[i].out, expected_exception)

Rejected(i) == hist[i].out = "CircuitBreakerOpenError" /\ ~hist[i].invoked

\* the first k completed calls all failed with an expected exception
FirstAllFail(k) == k <= Len(hist) /\ \A i \in 1..k : ExpectedFailure(i)

\* C1: on a fresh breaker with threshold N, after k < N consecutive expected
\* failures the state is still closed, after the N-th it is open, and the
\* (N+1)-th call, checked before recovery_timeout has passed since the last
\* failure, raises CircuitBreakerOpenError without invoking its operation.
C1_ThresholdOpens ==
    /\ \A k \in 1..Len(hist) :
          (FirstAllFail(k) /\ k <= failure_threshold) =>
              hist[k].post = (IF k < failure_threshold THEN "closed" ELSE "open")
    /\ (/\ Len(hist) > failure_threshold
        /\ FirstAllFail(failure_threshold)
        /\ hist[failure_threshold + 1].at - hist[failure_threshold].lft < recovery_timeout)
       => Rejected(failure_threshold + 1)

C1_Witness ==
    /\ failure_threshold = MaxThreshold
    /\ Len(hist) > failure_threshold
    /\ FirstAllFail(failure_threshold)
    /\ hist[failure_threshold].post = "open"
    /\ Rejected(failure_threshold + 1)

\* C2: a call that finds the breaker open with now - last_failure_time >=
\* recovery_timeout is admitted in half-open and its operation is invoked;
\* success closes the breaker with failure_count 0; an expected failure
\* re-opens it with last_failure_time = the time of that failure, and the
\* following call made within recovery_timeout of it is rejected.
C2_HalfOpenTrial ==
    \A k \in 1..Len(hist) :
        (hist[k].pre = "open" /\ hist[k].at - hist[k].prelft >= recovery_timeout) =>
            /\ hist[k].adm = "half_open"
            /\ hist[k].invoked
            /\ hist[k].out = "ok" => (hist[k].post = "closed" /\ hist[k].fc = 0)
            /\ ExpectedFailure(k) =>
                  /\ hist[k].post = "open"
                  /\ hist[k].lft = hist[k].end
                  /\ (k < Len(hist) /\ hist[k+1].at - hist[k].lft < recovery_timeout)
                        => Rejected(k + 1)

C2_Witness ==
    \E k \in 1..Len(hist) :
        /\ k + 2 <= Len(hist)
        /\ hist[k].pre = "open" /\ hist[k].adm = "half_open" /\ ExpectedFailure(k)
        /\ Rejected(k + 1)
        /\ hist[k+2].pre = "open" /\ hist[k+2].adm = "half_open" /\ hist[k+2].out = "ok"
        /\ hist[k+2].post = "closed"

\* C3: the breaker counts consecutive failures: a success while closed leaves
\* failure_count = 0, and as long as no failure_threshold expected failures
\* occur in a row the breaker stays closed.
NoRunOfThreshold ==
    \A k \in failure_threshold..Len(hist) :
        \E i \in (k - failure_threshold + 1)..k : ~ExpectedFailure(i)

C3_ConsecutiveFailures ==
    /\ \A k \in 1..Len(hist) :
          (hist[k].out = "ok" /\ hist[k].adm = "closed") => hist[k].fc = 0
    /\ NoRunOfThreshold => (state = "closed" /\ \A k \in 1..Len(hist) : hist[k].post = "closed")

(* ======================= claims on the retry manager ==================== *)
\* a connection/timeout error or a 5xx response
IsRetryableError(e) ==
    \/ e.cls \in {"ConnectionError", "Timeout"}
    \/ e.cls = "HTTPError" /\ e.status \in 500..599

AsOutcome(e) == Outcome(e.cls, e.status, e.arg)

\* every invocation of operation() so far raised a retryable error
AllRetryableFailures ==
    \A i \in 1..Len(OpEvents) : OpEvents[i].cls # "ok" /\ IsRetryableError(OpEvents[i])

\* min(base_delay * backoff_factor^i, max_delay)
ExpectedDelay(i) == Min(base_delay * Pow(backoff_factor, i), max_delay)

\* C6: an operation that raises a retryable error k <= max_retries times and
\* then succeeds is invoked k+1 times, execute_with_retry returns its value,
\* and exactly k sleeps happen, one after each failure and none after the
\* success, the i-th lasting calculate_delay(i-1) (1s then 2s for base 1s,
\* factor 2, no jitter).
C6_SucceedsAfterK ==
    LET ops == OpEvents
        k == Len(ops) - 1
    IN  /\ (Len(ops) > 0 /\ ops[Len(ops)].cls = "ok" /\ rpc # "handle") =>
              /\ k <= max_retries
              /\ rresult.kind = "return"
              /\ rresult.value = AsOutcome(ops[Len(ops)])
              /\ Len(SleepEvents) = k
              /\ Len(trace) = 2 * k + 1
              /\ \A i \in 1..Len(trace) :
                    trace[i].ev = (IF i % 2 = 1 THEN "op" ELSE "sleep")
              /\ \A i \in 1..k :
                    IF jitter
                    THEN /\ SleepEvents[i].arg >= ExpectedDelay(i - 1)
                         /\ SleepEvents[i].arg < 2 * ExpectedDelay(i - 1)
                    ELSE SleepEvents[i].arg = ExpectedDelay(i - 1)
              /\ (k = 2 /\ ~jitter /\ base_delay = Seconds(1) /\ backoff_factor = 2
                    /\ max_delay >= Seconds(2))
                    => SleepEvents = << Event("sleep", "", 0, Seconds(1)),
                                        Event("sleep", "", 0, Seconds(2)) >>
        /\ (Len(ops) > 0 /\ Len(ops) <= max_retries /\ AllRetryableFailures /\ rpc # "handle") =>
              /\ rpc = "invoke"
              /\ Len(SleepEvents) = Len(ops)

C6_Witness ==
    /\ rresult.kind = "return"
    /\ Len(OpEvents) = 3
    /\ ~jitter /\ base_delay = Seconds(1) /\ backoff_factor = 2
    /\ SleepEvents = << Event("sleep", "", 0, Seconds(1)), Event("sleep", "", 0, Seconds(2)) >>

\* C7: an operation that always raises a retryable error is invoked exactly
\* max_retries+1 times with max_retries sleeps, none after the last attempt,
\* and MaxRetriesExceededError is raised with attempts = max_retries+1 and
\* last_exception = the error of the final attempt.
C7_AlwaysFailing ==
    LET ops == OpEvents
    IN  /\ (rresult.kind = "raise" /\ AllRetryableFailures) =>
              /\ Len(ops) = max_retries + 1
              /\ Len(SleepEvents) = max_retries
              /\ trace[Len(trace)].ev = "op"
              /\ rresult.cls = "MaxRetriesExceededError"
              /\ rresult.attempts = max_retries + 1
              /\ rresult.value = AsOutcome(ops[Len(ops)])
        /\ (Len(ops) = max_retries + 1 /\ AllRetryableFailures /\ rpc # "handle") =>
              rresult.kind = "raise"

C7_Witness ==
    /\ rresult.kind = "raise"
    /\ AllRetryableFailures
    /\ max_retries = 2
    /\ Len(OpEvents) = 3
    /\ Len(SleepEvents) = 2

\* C8: when the first invocation raises an error that no retry condition
\* matches, the operation is invoked once, nothing sleeps,
\* total_retry_attempts keeps its value and an error is raised.
C8_NonRetryableStops ==
    LET ops == OpEvents
    IN  (/\ Len(ops) >= 1
         /\ ops[1].cls # "ok"
         /\ ~IsRetryableError(ops[1])
         /\ rpc # "handle") =>
            /\ Len(ops) = 1
            /\ Len(SleepEvents) = 0
            /\ metrics.total_retry_attempts = metrics0.total_retry_attempts
            /\ rresult.kind = "raise"

C8_Witness ==
    /\ max_retries >= 1
    /\ rresult.kind = "raise"
    /\ Len(OpEvents) = 1
    /\ OpEvents[1].cls = "HTTPError" /\ OpEvents[1].status = 404
    /\ metrics.total_retry_attempts = metrics0.total_retry_attempts

\* C9: a 404 raised by the first invocation leaves execute_with_retry as that
\* same HTTPError, after exactly one invocation.
C9_ClientErrorPropagates ==
    LET ops == OpEvents
    IN  (/\ Len(ops) >= 1
         /\ ops[1].cls = "HTTPError" /\ ops[1].status = 404
         /\ rpc # "handle") =>
            /\ Len(ops) = 1
            /\ rresult.kind = "raise"
            /\ rresult.cls = "HTTPError"
            /\ rresult.value = AsOutcome(ops[1])

(* ========================= claims on the client ========================= *)
ExchangeEvents == SelectSeq(trace, LAMBDA e : e.ev = "exchange")

\* C4: after failure_threshold (5) consecutive admin requests that each failed
\* with a network error or a 5xx response, the next admin request made within
\* recovery_timeout performs no HTTP exchange and raises
\* CircuitBreakerOpenError.
C4_AdminFailsFast ==
    (/\ req_pc = "running"
     /\ use_admin_api
     /\ fail_streak >= ClientFailureThreshold
     /\ req_at - last_fail_at < recovery_timeout) =>
        /\ req_exchanges = 0
        /\ (pc[1] = "idle" /\ Len(hist) = 1) => hist[1].out = "CircuitBreakerOpenError"

\* C5: when every exchange of a request fails with a connection/timeout error
\* or a 5xx status, MaxRetriesExceededError is raised only after
\* retry_attempts + 1 exchanges with a backoff sleep between consecutive ones.
C5_ExchangeRetried ==
    (/\ req_pc = "idle"
     /\ req_result.cls = "MaxRetriesExceededError"
     /\ AllExchangesFailed) =>
        /\ req_exchanges = max_retries + 1
        /\ Len(SleepEvents) = max_retries

\* the events of the first authenticated_request invocation of the request
FirstCallEvents ==
    LET ends == {i \in 1..Len(trace) : trace[i].ev = "op"}
    IN  IF ends = {} THEN trace
        ELSE SubSeq(trace, 1, CHOOSE i \in ends : \A j \in ends : i <= j)

\* C10: in an admin authenticated_request, a 401 on the first exchange is
\* followed, in this order, by invalidate_cache(), a header fetch that misses
\* the cache, and one more exchange, with no sleep; a 401 on that second
\* exchange raises AuthenticationError without a third exchange; the request
\* invalidates the cache at most once.
C10_ReauthOnce ==
    LET seg == FirstCallEvents
    IN  (/\ use_admin_api
         /\ Len(seg) >= 2
         /\ seg[2].ev = "exchange" /\ seg[2].status = 401
         /\ apc # "response" \/ exch_no = 2) =>
            /\ seg[1].ev = "token"
            /\ Len(seg) >= 4
            /\ seg[3].ev = "invalidate"
            /\ seg[4].ev = "token" /\ seg[4].cls = "miss"
            /\ Len(seg) >= 5 => (seg[5].ev = "exchange" /\ seg[5].arg = 2)
            /\ Len(seg) >= 6 =>
                  /\ Len(seg) = 6
                  /\ seg[6].ev = "op"
                  /\ seg[5].status = 401 =>
                        (seg[6].cls = "AuthenticationError" /\ seg[6].status = 401)
            /\ Len(SelectSeq(seg, LAMBDA e : e.ev = "sleep")) = 0
            /\ Len(SelectSeq(trace, LAMBDA e : e.ev = "invalidate")) = 1
            /\ Len(ExchangeEvents) <= 2
            /\ req_exchanges <= 2

C10_Witness ==
    /\ use_admin_api
    /\ req_pc = "idle"
    /\ req_result.kind = "raise"
    /\ Len(trace) = 6
    /\ trace[1].ev = "token" /\ trace[1].cls = "hit"
    /\ trace[2].ev = "exchange" /\ trace[2].status = 401
    /\ trace[3].ev = "invalidate"
    /\ trace[4].ev = "token" /\ trace[4].cls = "miss"
    /\ trace[5].ev = "exchange" /\ trace[5].status = 401
    /\ trace[6].ev = "op" /\ trace[6].cls = "AuthenticationError"
    /\ req_exchanges = 2

\* C11: an admin request whose exchange answers 401 and whose reauthenticated
\* exchange answers 401 again is recorded as one circuit-breaker failure
\* (failure_count grows by 1); when the reauthenticated exchange succeeds the
\* request records no breaker failure and uses no retry attempt.
C11_SecondUnauthorizedCounts ==
    LET x == ExchangeEvents
    IN  (/\ use_admin_api
         /\ req_pc = "idle"
         /\ Len(hist) = 1
         /\ Len(x) = 2
         /\ x[1].status = 401) =>
            /\ x[2].status = 401 => hist[1].fc = hist[1].prefc + 1
            /\ x[2].status = 200 =>
                  /\ req_result.kind = "return"
                  /\ hist[1].fc = hist[1].prefc
                  /\ hist[1].post = hist[1].pre
                  /\ metrics.total_retry_attempts = metrics0.total_retry_attempts
                  /\ Len(OpEvents) = 1

\* C12: a 429 response is never retried: after an exchange answered 429 the
\* request performs no further exchange and no backoff sleep, and the error
\* raised to the caller carries status 429 and the value of the Retry-After
\* header (nothing when the header is missing).
C12_RateLimitSurfaced ==
    \A i \in 1..Len(trace) :
        (trace[i].ev = "exchange" /\ trace[i].status = 429) =>
            /\ \A j \in (i + 1)..Len(trace) : trace[j].ev \notin {"exchange", "sleep"}
            /\ req_pc = "idle" =>
                  /\ req_result.kind = "raise"
                  /\ req_result.details = Details(429, retry_after_header)

(* ========================== claims on JWTAuth ========================== *)
\* C13: get_valid_token(min_remaining) returns the cached token and counts one
\* hit exactly when a token is cached and expires_at - now > min_remaining;
\* otherwise it signs a token that lives 300 s, stores it with expires_at =
\* now + 300, counts one miss and returns it (at 1000: exp 1300; at 1100: the
\* same token; at 1250 with min_remaining 60: a new token, exp 1550).
C13_CacheHitOrRefresh ==
    LET r == jret
        fresh == /\ r.pre.cache # NoToken
                 /\ r.pre.expires_at # None
                 /\ r.pre.expires_at - r.now > r.min_remaining
    IN  r.id > 0 =>
          /\ IF fresh
             THEN /\ r.token = r.pre.cache
                  /\ r.post.cache = r.pre.cache
                  /\ r.post.expires_at = r.pre.expires_at
                  /\ r.post.stats = [r.pre.stats EXCEPT !.hits = @ + 1]
             ELSE /\ r.token.exp - r.token.iat = 300
                  /\ r.now <= r.token.iat /\ r.token.iat <= r.end
                  /\ r.post.cache = r.token
                  /\ r.post.expires_at = r.now + 300
                  /\ r.post.stats = [r.pre.stats EXCEPT !.misses = @ + 1]
          /\ (r.now = 1000 /\ r.end = 1000 /\ r.pre.cache = NoToken) =>
                (r.token.exp = 1300 /\ r.post.expires_at = 1300)
          /\ (r.now = 1100 /\ r.min_remaining = 60
                /\ r.pre.cache = Token(1000, 1300) /\ r.pre.expires_at = 1300) =>
                r.token = Token(1000, 1300)
          /\ (r.now = 1250 /\ r.end = 1250 /\ r.min_remaining = 60
                /\ r.pre.cache = Token(1000, 1300) /\ r.pre.expires_at = 1300) =>
                (r.token = Token(1250, 1550) /\ r.post.expires_at = 1550)

C13_Witness ==
    /\ jret.id = 3
    /\ jret.now = 1250
    /\ jret.pre.cache = Token(1000, 1300)
    /\ jret.token = Token(1250, 1550)
    /\ token_expires_at = 1550
    /\ cache_stats = [hits |-> 1, misses |-> 2]

\* C14: whatever token T the cache holds and whatever the clock shows, the
\* get_valid_token that follows invalidate_cache() signs a new token and
\* returns a value different from T.
C14_InvalidateYieldsDistinctToken ==
    (jret.id > 0 /\ jret.after # NoToken) =>
        /\ ~jret.hit
        /\ jret.post.stats.misses = jret.pre.stats.misses + 1
        /\ jret.token # jret.after

\* C15: under any interleaving of get_valid_token and invalidate_cache calls
\* of several threads the cache is never torn: once every call has returned,
\* _token_cache and _token_expires_at were written by the same refresh, or
\* both are empty.
C15_CacheNeverTorn ==
    (\A t \in Threads : jframe[t].pc = "idle") =>
        /\ cache_from = expiry_from
        /\ (token_cache = NoToken) <=> (token_expires_at = None)

(* ================= claims on concurrent breaker calls =================== *)
\* the state transitions the breaker is allowed to make
AllowedTransitions ==
    { <<"closed", "open">>, <<"open", "half_open">>,
      <<"half_open", "closed">>, <<"half_open", "open">> }

\* C16: for any interleaving of concurrent call() invocations on one breaker,
\* every change of state is closed->open, open->half_open, half_open->closed
\* or half_open->open; never open->closed, never closed->half_open.
C16_OnlyAllowedTransitions ==
    [][state' # state => <<state, state'>> \in AllowedTransitions]_vars

(* ====================== claims on _handle_response ====================== *)
\* C17: _handle_response maps 400 to BadRequestError, 401 to
\* UnauthorizedError, 403 to ForbiddenError, 404 to NotFoundError, 409 to a
\* conflict error, 422 to BadRequestError, 429 to RateLimitError with
\* retry_after taken from the Retry-After header, every status >= 500 to
\* ServerError; each error carries the status code and the response payload;
\* a 2xx response returns the parsed body.
C17_StatusMapping ==
    LET sc == hr_response.status_code
        r == hr_result
    IN  r.kind # "none" =>
          /\ sc = 400 => r.cls = "BadRequestError"
          /\ sc = 401 => r.cls = "UnauthorizedError"
          /\ sc = 403 => r.cls = "ForbiddenError"
          /\ sc = 404 => r.cls = "NotFoundError"
          /\ sc = 409 => r.cls = "ConflictError"
          /\ sc = 422 => r.cls = "BadRequestError"
          /\ sc = 429 => (r.cls = "RateLimitError" /\ r.retry_after = hr_response.retry_after)
          /\ sc >= 500 => r.cls = "ServerError"
          /\ sc >= 400 =>
                /\ r.kind = "raise"
                /\ r.status_code = sc
                /\ hr_response.body # "invalid" => r.response_data = hr_response.body
          /\ (sc \in 200..299 /\ hr_response.body # "invalid") =>
                (r.kind = "return" /\ r.response_data = hr_response.body)

(* ====================== claims on calculate_delay ======================= *)
\* C18: with base_delay > 0, max_delay >= base_delay, backoff_factor > 1 and
\* jitter off, calculate_delay(attempt) = min(base_delay *
\* backoff_factor^attempt, max_delay) for every attempt >= 0, and the delay
\* never decreases as attempt grows.
C18_DelayWithoutJitter ==
    (~jitter /\ base_delay > 0 /\ max_delay >= base_delay /\ backoff_factor > 1) =>
        /\ \A i \in 1..Len(calc) : calc[i].delay = ExpectedDelay(calc[i].attempt)
        /\ \A i, k \in 1..Len(calc) :
              calc[i].attempt <= calc[k].attempt => calc[i].delay <= calc[k].delay

C18_Witness ==
    /\ ~jitter
    /\ base_delay = Seconds(1) /\ backoff_factor = 2 /\ max_delay = Seconds(2)
    /\ Len(calc) = 2
    /\ calc[1] = [attempt |-> 0, delay |-> Seconds(1)]
    /\ calc[2] = [attempt |-> MaxAttempt, delay |-> Seconds(2)]

\* C19: with jitter, the delay execute_with_retry passes to sleep for retry
\* index i is at most min(2 * base_delay * backoff_factor^i, max_delay): no
\* backoff sleep exceeds max_delay, jitter included.
C19_SleepWithinMaxDelay ==
    \A i \in 1..Len(SleepEvents) :
        SleepEvents[i].arg <= Min(2 * base_delay * Pow(backoff_factor, i - 1), max_delay)

(* ================== claims on content requests and the breaker ========== *)
\* C20: a content request (use_admin_api = False) bypasses the breaker: it is
\* executed even while the breaker is open, and whatever its outcome it
\* leaves state, failure_count and last_failure_time as they were.
C20_ContentBypassesBreaker ==
    /\ [](/\ (req_pc = "running" /\ ~use_admin_api) => (pc[1] = "idle" /\ lock = 0)
          /\ (req_pc = "idle" /\ ~use_admin_api /\ nreq > 0) =>
                (req_exchanges >= 1 /\ req_result.cls # "CircuitBreakerOpenError"))
    /\ [][(\/ req_pc = "running" /\ ~use_admin_api
           \/ req_pc' = "running" /\ ~use_admin_api')
          => UNCHANGED <<state, failure_count, last_failure_time>>]_vars

C20_Witness ==
    /\ state = "open"
    /\ failure_count = ClientFailureThreshold
    /\ now - last_failure_time < recovery_timeout
    /\ ~use_admin_api
    /\ req_pc = "idle"
    /\ req_at >= last_failure_time
    /\ req_exchanges = 1
    /\ req_result.kind = "return"

(* ============== more claims on execute_with_retry (SpecRetry) =========== *)
\* C21: whenever execute_with_retry raises MaxRetriesExceededError, its
\* attempts field equals the number of times the operation was invoked (1 when
\* the first error is not retryable, max_retries + 1 only when the budget is
\* used up), and its last_exception is the error of the last invocation.
C21_AttemptsCountInvocations ==
    (rresult.kind = "raise" /\ rresult.cls = "MaxRetriesExceededError") =>
        /\ rresult.attempts = Len(OpEvents)
        /\ rresult.value = AsOutcome(OpEvents[Len(OpEvents)])

(* ========== more claims on sequential breaker calls (SpecBreakerSeq) ==== *)
\* C22: in every breaker state (closed, half-open, open past its recovery
\* timeout), a call whose operation raises an exception that is not an
\* instance of expected_exception re-raises that exception and leaves
\* failure_count and last_failure_time unchanged and does not open the breaker.
C22_UnexpectedLeavesCounters ==
    \A k \in 1..Len(hist) :
        (hist[k].raised = "ValueError" /\ expected_exception = "ConnectionError") =>
            /\ hist[k].out = "ValueError"
            /\ hist[k].fc = hist[k].prefc
            /\ hist[k].lft = hist[k].prelft
            /\ hist[k].post = hist[k].adm
            /\ hist[k].post # "open"

C22_Witness ==
    \E i, j, k \in 1..Len(hist) :
        /\ hist[i].raised = "ValueError" /\ hist[i].pre = "closed"
              /\ hist[i].post = "closed"
        /\ hist[j].raised = "ValueError" /\ hist[j].pre = "open"
              /\ hist[j].at - hist[j].prelft >= recovery_timeout
              /\ hist[j].out = "ValueError"
        /\ hist[k].raised = "ValueError" /\ hist[k].pre = "half_open"
              /\ hist[k].post = "half_open" /\ hist[k].fc = failure_threshold

(* ========= more claims on concurrent breaker calls (SpecBreakerThreads) = *)
\* the threads whose call was admitted in half-open and whose operation has
\* not yet returned or raised
HalfOpenInFlight == {t \in Threads : pc[t] = "operation" /\ current_state[t] = "half_open"}

\* C23: half-open allows one trial call: while the call admitted for the trial
\* is still executing its operation, no other call admitted in half-open has
\* its operation invoked (at most one half-open operation is in flight).
C23_OneTrialInFlight == Cardinality(HalfOpenInFlight) <= 1

\* C26: in every reachable state of a breaker with failure_threshold >= 1,
\* concurrent callers included, 0 <= failure_count <= failure_threshold.
C26_FailureCountBounded ==
    failure_threshold >= 1 => (0 <= failure_count /\ failure_count <= failure_threshold)

\* C27: under any interleaving of callers the state and the counter agree:
\* the state is closed exactly when failure_count < failure_threshold, and
\* open or half-open imply failure_count >= failure_threshold and a
\* last_failure_time that is set.
C27_StateAgreesWithCount ==
    failure_threshold >= 1 =>
        /\ (state = "closed") <=> (failure_count < failure_threshold)
        /\ state \in {"open", "half_open"} =>
              (failure_count >= failure_threshold /\ last_failure_time # None)

\* the call that last took the breaker into open before the k-th completed call
LastOpening(k) ==
    LET js == {j \in 1..(k - 1) : hist[j].was # "open" /\ hist[j].post = "open"}
    IN  IF js = {} THEN 0 ELSE CHOOSE j \in js : \A i \in js : i <= j

\* C28: once the breaker enters open at time t, a call arriving at a time
\* >= t + recovery_timeout is admitted, not rejected with
\* CircuitBreakerOpenError, even when calls admitted while the breaker was
\* closed fail after t: a rejected call arrives less than recovery_timeout
\* after the breaker last entered open.
C28_LateFailuresDoNotExtendOpen ==
    \A k \in 1..Len(hist) :
        (Rejected(k) /\ LastOpening(k) # 0) =>
            hist[k].at - hist[LastOpening(k)].end < recovery_timeout

InGetValidToken(t) == jframe[t].pc \in {"check", "hit", "generate", "store_token", "store_expiry"}
GetValidTokenStep == \E t \in Threads : InGetValidToken(t) \/ InGetValidToken(t)'
InvalidateCacheStep == \E t \in Threads : jframe[t].pc = "clear_expiry" \/ jframe'[t].pc = "clear_expiry"
ValidateTokenStep == jvalid' # jvalid

\* C25: across any sequence of get_valid_token, invalidate_cache and
\* validate_token calls on one JWTAuth, hits and misses never decrease; each
\* get_valid_token call increases exactly one of them by exactly 1 (a second
\* call with no elapsed time inside the validity window increments hits
\* only); invalidate_cache and validate_token change neither.
C25_CountersCountCalls ==
    /\ [](jret.id > 0 =>
            /\ \/ jret.post.stats = [jret.pre.stats EXCEPT !.hits = @ + 1]
               \/ jret.post.stats = [jret.pre.stats EXCEPT !.misses = @ + 1]
            /\ (/\ jret.pre.cache # NoToken
                /\ jret.pre.cache.iat = jret.now
                /\ jret.pre.expires_at = jret.now + TokenLifetime) =>
                  (jret.hit /\ jret.post.stats = [jret.pre.stats EXCEPT !.hits = @ + 1]))
    /\ [][/\ cache_stats'.hits >= cache_stats.hits
          /\ cache_stats'.misses >= cache_stats.misses
          /\ (InvalidateCacheStep \/ ValidateTokenStep \/ ~GetValidTokenStep)
                => cache_stats' = cache_stats]_vars

C25_Witness ==
    /\ jcalls = 3
    /\ jvalid.id = 2 /\ jvalid.result
    /\ jret.id = 3 /\ jret.hit
    /\ jret.now = 1000 /\ jret.pre.cache = Token(1000, 1300)
    /\ cache_stats = [hits |-> 1, misses |-> 1]

(* ========= termination of execute_with_retry (SpecRetryLive) ============ *)
\* C29: for every max_retries >= 0 and every operation whose invocations each
\* return or raise, execute_with_retry terminates after at most
\* max_retries + 1 invocations and at most max_retries sleeps; it either
\* returns the operation's value or raises MaxRetriesExceededError; afterwards
\* total_operations = successful_operations + failed_operations.
C29_ExecuteTerminates ==
    /\ [](/\ Len(OpEvents) <= max_retries + 1
          /\ Len(SleepEvents) <= max_retries
          /\ rpc = "returned" =>
                /\ rresult.kind = "return"
                /\ rresult.value = AsOutcome(OpEvents[Len(OpEvents)])
                /\ rresult.value.cls = "ok"
          /\ rpc = "raised" =>
                (rresult.kind = "raise" /\ rresult.cls = "MaxRetriesExceededError")
          /\ rpc \in {"idle", "returned", "raised"} =>
                metrics.total_operations
                    = metrics.successful_operations + metrics.failed_operations)
    /\ (rpc = "invoke") ~> (rpc \in {"returned", "raised"})

C29_Witness ==
    /\ nexec = 1
    /\ rpc = "idle"
    /\ max_retries = MaxRetriesBound
    /\ Len(OpEvents) = max_retries + 1
    /\ Len(SleepEvents) = max_retries
    /\ rresult.cls = "MaxRetriesExceededError"
    /\ metrics = Metrics(1, 0, 1, max_retries, total_delay)

(* ============ the margin of the token handed out (SpecJwt) ============== *)
\* C30: for every min_remaining < 300 and every sequence of get_valid_token
\* and invalidate_cache calls of one caller under a non-decreasing clock, the
\* token get_valid_token(min_remaining) returns is the cached one and its
\* recorded expiry satisfies expires_at - now > min_remaining: a token closer
\* to expiry than min_remaining is never handed out.
C30_TokenHasMargin ==
    (jret.id > 0 /\ jret.min_remaining < TokenLifetime) =>
        /\ jret.post.cache = jret.token
        /\ jret.token # NoToken
        /\ jret.post.expires_at # None
        /\ jret.post.expires_at - jret.now > jret.min_remaining

C30_Witness ==
    /\ jret.id > 0
    /\ jret.now = 1240
    /\ jret.min_remaining = DefaultMinRemaining
    /\ jret.pre.cache = Token(1000, 1300)
    /\ jret.pre.expires_at = 1300
    /\ ~jret.hit
    /\ jret.post.expires_at = 1540

=============================================================================
